---------------------------- MODULE Spec2Model ----------------------------
(* A model of the game-state engine of ai-dungeon-gui                      *)
(* (src/src/pages/Index.tsx: GameEngine, INITIAL_STATE, handleCommand).    *)
(*                                                                         *)
(* JavaScript objects and arrays are references.  The engine copies its    *)
(* state record shallowly ({...state}), so the arrays inside it, and the   *)
(* quest objects inside activeQuests, are shared between INITIAL_STATE,    *)
(* the engine and every record getState() has returned.  The model keeps   *)
(* them in a heap: a state record holds array references, `heap` maps an   *)
(* array reference to its contents and `quests` maps a quest object to its *)
(* fields.                                                                 *)
(*                                                                         *)
(* Presentational React state of the page (imageUrl, showInventory,        *)
(* toasts, the earlier entries of messages) is never read by the engine    *)
(* and is left out.                                                        *)
EXTENDS Integers, Sequences, FiniteSets, TLC

VARIABLES
    state,      \* GameEngine.state: the record the engine owns
    heap,       \* array reference -> contents of the array
    quests,     \* quest object -> its fields
    ret,        \* what the last engine call returned
    gameState,  \* the page's React state: what getState() returned last
    isLoading,  \* the page's loading flag
    inFlight,   \* the calls to the dungeon-master function not yet answered
    commandText, \* the page's command text, which a submit passes to handleCommand
    lastMessage \* the last entry of the page's messages

vars == <<state, heap, quests, ret, gameState, isLoading, inFlight, commandText, lastMessage>>

-----------------------------------------------------------------------------
(* Sequence helpers (Array.prototype.includes/splice)                       *)

Max(a, b) == IF a >= b THEN a ELSE b

Min(a, b) == IF a <= b THEN a ELSE b

Range(s) == {s[i] : i \in 1..Len(s)}

Includes(s, x) == \E i \in 1..Len(s) : s[i] = x

\* splice(index, 1)
RemoveAt(s, i) == SubSeq(s, 1, i - 1) \o SubSeq(s, i + 1, Len(s))

NoDuplicates(s) == \A i, j \in 1..Len(s) : s[i] = s[j] => i = j

IsPrefix(s, t) == Len(s) <= Len(t) /\ SubSeq(t, 1, Len(s)) = s

-----------------------------------------------------------------------------
(* Data: Item, Quest, INITIAL_STATE                                         *)

ItemTypes == {"weapon", "armor", "potion", "key", "treasure"}

StarterSword ==
    [id |-> "starter-sword", name |-> "Rusty Sword", type |-> "weapon",
     value |-> 10, description |-> "A worn but reliable blade",
     effect |-> [damage |-> 15]]

HealthPotion ==
    [id |-> "health-potion", name |-> "Health Potion", type |-> "potion",
     value |-> 25, description |-> "Restores 30 HP",
     effect |-> [health |-> 30]]

\* item.effect?.health, as a JavaScript condition: present and not 0
HasHealthEffect(item) ==
    /\ "health" \in DOMAIN item.effect
    /\ item.effect.health # 0

CrystalNames == {"Nature", "Water", "Fire", "Air", "Earth"}

StoryPhases == {"awakening", "exploration", "finale"}

\* The quest object literal inside INITIAL_STATE.activeQuests
AwakeningQuest == "quest:awakening"

\* Array references.  INITIAL_STATE's four array literals:
InventoryRef == "inventory#0"

CompletedQuestsRef == "completedQuests#0"

CrystalsRestoredRef == "crystalsRestored#0"

ActiveQuestsRef == "activeQuests#0"

\* The arrays activeQuests.filter(...) allocates, in the order they are taken
FilterRefOrder == <<"activeQuests#1", "activeQuests#2", "activeQuests#3", "activeQuests#4">>

FilterRefs == {FilterRefOrder[i] : i \in 1..Len(FilterRefOrder)}

LiteralRefs == {InventoryRef, CompletedQuestsRef, CrystalsRestoredRef, ActiveQuestsRef}

INITIAL_STATE ==
    [health |-> 100,
     maxHealth |-> 100,
     inventory |-> InventoryRef,
     gold |-> 50,
     currentLocation |-> "Eldergrove Village",
     experience |-> 0,
     level |-> 1,
     currentAct |-> 1,
     currentRegion |-> "Eldergrove",
     activeQuests |-> ActiveQuestsRef,
     completedQuests |-> CompletedQuestsRef,
     crystalsRestored |-> CrystalsRestoredRef,
     storyPhase |-> "awakening"]

\* The contents of INITIAL_STATE's array literals when the module is loaded
InitialHeap ==
    [r \in LiteralRefs |->
        CASE r = InventoryRef -> <<StarterSword, HealthPotion>>
          [] r = ActiveQuestsRef -> <<AwakeningQuest>>
          [] OTHER -> <<>>]

-----------------------------------------------------------------------------
(* The heap                                                                 *)

\* The first array reference not in use, for the array filter() creates
NewRef(h) ==
    FilterRefOrder[CHOOSE i \in 1..Len(FilterRefOrder) :
                      /\ FilterRefOrder[i] \notin DOMAIN h
                      /\ \A j \in 1..(i - 1) : FilterRefOrder[j] \in DOMAIN h]

CanAllocate(h) == \E r \in FilterRefs : r \notin DOMAIN h

\* The array references a state record holds
RefsOf(s) == {s.inventory, s.activeQuests, s.completedQuests, s.crystalsRestored}

\* Garbage collection: the arrays no record in `roots` refers to are dropped
Collect(h, roots) ==
    [r \in {x \in DOMAIN h : \E s \in roots : x \in RefsOf(s)} |-> h[r]]

\* What a record shows to whoever reads through its references
View(s, h, q) ==
    [s EXCEPT !.inventory = h[s.inventory],
              !.activeQuests = [i \in 1..Len(h[s.activeQuests]) |-> q[h[s.activeQuests][i]]],
              !.completedQuests = h[s.completedQuests],
              !.crystalsRestored = h[s.crystalsRestored]]

\* The result of an engine method: the engine's world after it and its return value
Out(s, h, q, r) == [state |-> s, heap |-> h, quests |-> q, ret |-> r]

\* Return values are kept as records, so that any two of them can be compared
Undefined == [type |-> "undefined"]

Null == [type |-> "null"]

Number(n) == [number |-> n]

Boolean(b) == [boolean |-> b]

\* A call that did not return: what it threw
Thrown(error) == [thrown |-> error]

Threw(o) == "thrown" \in DOMAIN o.ret

-----------------------------------------------------------------------------
(* class GameEngine: each method as a function of the world and its input   *)

\* constructor(initialState = INITIAL_STATE): this.state = { ...initialState }
constructor(initialState) == initialState

\* getState(): { ...this.state }: a new record holding the same references
getState(s, h, q) == Out(s, h, q, s)

\* setState(newState): this.state = { ...this.state, ...newState }
setState(s, h, q, newState) ==
    Out([f \in DOMAIN s |-> IF f \in DOMAIN newState THEN newState[f] ELSE s[f]],
        h, q, Undefined)

\* takeDamage without the floor at 0
takeDamage_NoFloor(s, h, q, amount) ==
    LET newHealth == s.health - amount
    IN  Out([s EXCEPT !.health = newHealth], h, q,
            [newHealth |-> newHealth, isDead |-> newHealth = 0])

takeDamage(s, h, q, amount) ==
    LET newHealth == Max(0, s.health - amount)
    IN  Out([s EXCEPT !.health = newHealth], h, q,
            [newHealth |-> newHealth, isDead |-> newHealth = 0])

\* heal without the cap at maxHealth
heal_Uncapped(s, h, q, amount) ==
    LET oldHealth == s.health
        newHealth == s.health + amount
    IN  Out([s EXCEPT !.health = newHealth], h, q, Number(newHealth - oldHealth))

heal(s, h, q, amount) ==
    LET oldHealth == s.health
        newHealth == Min(s.maxHealth, s.health + amount)
    IN  Out([s EXCEPT !.health = newHealth], h, q, Number(newHealth - oldHealth))

addItem(s, h, q, item) ==
    Out(s, [h EXCEPT ![s.inventory] = Append(@, item)], q, Undefined)

\* inventory.findIndex(i => i.id === itemId), 0 when there is none
FindItemIndex(inv, itemId) ==
    IF \E i \in 1..Len(inv) : inv[i].id = itemId
    THEN CHOOSE i \in 1..Len(inv) :
            /\ inv[i].id = itemId
            /\ \A j \in 1..(i - 1) : inv[j].id # itemId
    ELSE 0

\* removeItem that takes the last entry of the id out instead of the first
removeItem_LastMatch(s, h, q, itemId) ==
    LET inv == h[s.inventory]
        found == {i \in 1..Len(inv) : inv[i].id = itemId}
        index == IF found = {} THEN 0 ELSE CHOOSE i \in found : \A j \in found : j <= i
    IN  IF index = 0
        THEN Out(s, h, q, Null)
        ELSE Out(s, [h EXCEPT ![s.inventory] = RemoveAt(@, index)], q,
                 h[s.inventory][index])

removeItem(s, h, q, itemId) ==
    LET index == FindItemIndex(h[s.inventory], itemId)
    IN  IF index = 0
        THEN Out(s, h, q, Null)
        ELSE Out(s, [h EXCEPT ![s.inventory] = RemoveAt(@, index)], q,
                 h[s.inventory][index])

\* useItem without the test of the item's type
useItem_AnyType(s, h, q, itemId) ==
    LET index == FindItemIndex(h[s.inventory], itemId)
        item == h[s.inventory][index]
    IN  IF index = 0
        THEN Out(s, h, q, [success |-> FALSE, message |-> <<"Item not found">>])
        ELSE IF HasHealthEffect(item)
        THEN LET healed == heal(s, h, q, item.effect.health)
                 removed == removeItem(healed.state, healed.heap, healed.quests, itemId)
             IN  Out(removed.state, removed.heap, removed.quests,
                     [success |-> TRUE,
                      message |-> <<"Used ", item.name, ". Restored ", healed.ret.number, " HP!">>,
                      effect |-> [healthRestored |-> healed.ret.number]])
        ELSE Out(s, h, q, [success |-> FALSE, message |-> <<"Cannot use this item now">>])

useItem(s, h, q, itemId) ==
    LET index == FindItemIndex(h[s.inventory], itemId)
        item == h[s.inventory][index]
    IN  IF index = 0
        THEN Out(s, h, q, [success |-> FALSE, message |-> <<"Item not found">>])
        ELSE IF item.type = "potion" /\ HasHealthEffect(item)
        THEN LET healed == heal(s, h, q, item.effect.health)
                 removed == removeItem(healed.state, healed.heap, healed.quests, itemId)
             IN  Out(removed.state, removed.heap, removed.quests,
                     [success |-> TRUE,
                      message |-> <<"Used ", item.name, ". Restored ", healed.ret.number, " HP!">>,
                      effect |-> [healthRestored |-> healed.ret.number]])
        ELSE Out(s, h, q, [success |-> FALSE, message |-> <<"Cannot use this item now">>])

addGold(s, h, q, amount) ==
    Out([s EXCEPT !.gold = @ + amount], h, q, Undefined)

\* spendGold that refuses to spend all the gold there is
spendGold_Strict(s, h, q, amount) ==
    IF s.gold > amount
    THEN Out([s EXCEPT !.gold = @ - amount], h, q, Boolean(TRUE))
    ELSE Out(s, h, q, Boolean(FALSE))

spendGold(s, h, q, amount) ==
    IF s.gold >= amount
    THEN Out([s EXCEPT !.gold = @ - amount], h, q, Boolean(TRUE))
    ELSE Out(s, h, q, Boolean(FALSE))

\* gainExperience whose level-up leaves health as it was
gainExperience_KeepsHealth(s, h, q, amount) ==
    LET experience == s.experience + amount
        expNeeded == s.level * 100
    IN  IF experience >= expNeeded
        THEN Out([s EXCEPT !.level = @ + 1,
                           !.experience = experience - expNeeded,
                           !.maxHealth = @ + 20],
                 h, q, [leveledUp |-> TRUE, newLevel |-> s.level + 1])
        ELSE Out([s EXCEPT !.experience = experience], h, q, [leveledUp |-> FALSE])

gainExperience_MaxHealthPlusTen(s, h, q, amount) ==
    LET experience == s.experience + amount
        expNeeded == s.level * 100
    IN  IF experience >= expNeeded
        THEN Out([s EXCEPT !.level = @ + 1,
                           !.experience = experience - expNeeded,
                           !.maxHealth = @ + 10,
                           !.health = s.maxHealth + 10],
                 h, q, [leveledUp |-> TRUE, newLevel |-> s.level + 1])
        ELSE Out([s EXCEPT !.experience = experience], h, q, [leveledUp |-> FALSE])

gainExperience(s, h, q, amount) ==
    LET experience == s.experience + amount
        expNeeded == s.level * 100
    IN  IF experience >= expNeeded
        THEN Out([s EXCEPT !.level = @ + 1,
                           !.experience = experience - expNeeded,
                           !.maxHealth = @ + 20,
                           !.health = s.maxHealth + 20],
                 h, q, [leveledUp |-> TRUE, newLevel |-> s.level + 1])
        ELSE Out([s EXCEPT !.experience = experience], h, q, [leveledUp |-> FALSE])

\* activeQuests.find(q => q.id === questId): its position, 0 when there is none
FindQuestIndex(active, q, questId) ==
    IF \E i \in 1..Len(active) : q[active[i]].id = questId
    THEN CHOOSE i \in 1..Len(active) :
            /\ q[active[i]].id = questId
            /\ \A j \in 1..(i - 1) : q[active[j]].id # questId
    ELSE 0

\* activeQuests.filter(q => q.id !== questId)
FilterOutQuest(active, q, questId) ==
    LET keep == {i \in 1..Len(active) : q[active[i]].id # questId}
        nth(k) == CHOOSE i \in keep : Cardinality({j \in keep : j <= i}) = k
    IN  [k \in 1..Cardinality(keep) |-> active[nth(k)]]

\* completeQuest that puts the id at the front of completedQuests
completeQuest_Prepends(s, h, q, questId) ==
    LET active == h[s.activeQuests]
        index == FindQuestIndex(active, q, questId)
        quest == active[index]
        marked == [q EXCEPT ![quest].completed = TRUE]
        filtered == NewRef(h)
    IN  IF index # 0
        THEN Out([s EXCEPT !.activeQuests = filtered],
                 [r \in DOMAIN h \cup {filtered} |->
                     IF r = filtered THEN FilterOutQuest(active, marked, questId)
                     ELSE IF r = s.completedQuests THEN <<questId>> \o h[r]
                     ELSE h[r]],
                 marked, Undefined)
        ELSE Out(s, h, q, Undefined)

completeQuest(s, h, q, questId) ==
    LET active == h[s.activeQuests]
        index == FindQuestIndex(active, q, questId)
        quest == active[index]
        marked == [q EXCEPT ![quest].completed = TRUE]
        filtered == NewRef(h)
    IN  IF index # 0
        THEN Out([s EXCEPT !.activeQuests = filtered],
                 [r \in DOMAIN h \cup {filtered} |->
                     IF r = filtered THEN FilterOutQuest(active, marked, questId)
                     ELSE IF r = s.completedQuests THEN Append(h[r], questId)
                     ELSE h[r]],
                 marked, Undefined)
        ELSE Out(s, h, q, Undefined)

\* addQuest without the test for an active quest of the same id
addQuest_NoFind(s, h, q, quest) ==
    Out(s, [h EXCEPT ![s.activeQuests] = Append(@, quest)], q, Undefined)

addQuest(s, h, q, quest) ==
    IF FindQuestIndex(h[s.activeQuests], q, q[quest].id) = 0
    THEN Out(s, [h EXCEPT ![s.activeQuests] = Append(@, quest)], q, Undefined)
    ELSE Out(s, h, q, Undefined)

\* restoreCrystal with the finale entered one crystal early
restoreCrystal_FinaleAtFour(s, h, q, crystalType) ==
    IF ~Includes(h[s.crystalsRestored], crystalType)
    THEN LET restored == Append(h[s.crystalsRestored], crystalType)
             pushed == [h EXCEPT ![s.crystalsRestored] = restored]
         IN  IF Len(restored) = 1 /\ s.currentAct = 1
             THEN Out([s EXCEPT !.currentAct = 2, !.storyPhase = "exploration"],
                      pushed, q, Undefined)
             ELSE IF Len(restored) = 4
             THEN Out([s EXCEPT !.currentAct = 3, !.storyPhase = "finale"],
                      pushed, q, Undefined)
             ELSE Out(s, pushed, q, Undefined)
    ELSE Out(s, h, q, Undefined)

\* restoreCrystal without the includes() test
restoreCrystal_NoIncludes(s, h, q, crystalType) ==
    LET restored == Append(h[s.crystalsRestored], crystalType)
        pushed == [h EXCEPT ![s.crystalsRestored] = restored]
    IN  IF Len(restored) = 1 /\ s.currentAct = 1
        THEN Out([s EXCEPT !.currentAct = 2, !.storyPhase = "exploration"],
                 pushed, q, Undefined)
        ELSE IF Len(restored) = 5
        THEN Out([s EXCEPT !.currentAct = 3, !.storyPhase = "finale"],
                 pushed, q, Undefined)
        ELSE Out(s, pushed, q, Undefined)

\* restoreCrystal with the finale entered one crystal late
restoreCrystal_FinaleAtSix(s, h, q, crystalType) ==
    IF ~Includes(h[s.crystalsRestored], crystalType)
    THEN LET restored == Append(h[s.crystalsRestored], crystalType)
             pushed == [h EXCEPT ![s.crystalsRestored] = restored]
         IN  IF Len(restored) = 1 /\ s.currentAct = 1
             THEN Out([s EXCEPT !.currentAct = 2, !.storyPhase = "exploration"],
                      pushed, q, Undefined)
             ELSE IF Len(restored) = 6
             THEN Out([s EXCEPT !.currentAct = 3, !.storyPhase = "finale"],
                      pushed, q, Undefined)
             ELSE Out(s, pushed, q, Undefined)
    ELSE Out(s, h, q, Undefined)

\* restoreCrystal whose first crystal changes the story phase but not the act
restoreCrystal_PhaseOnly(s, h, q, crystalType) ==
    IF ~Includes(h[s.crystalsRestored], crystalType)
    THEN LET restored == Append(h[s.crystalsRestored], crystalType)
             pushed == [h EXCEPT ![s.crystalsRestored] = restored]
         IN  IF Len(restored) = 1 /\ s.currentAct = 1
             THEN Out([s EXCEPT !.storyPhase = "exploration"], pushed, q, Undefined)
             ELSE IF Len(restored) = 5
             THEN Out([s EXCEPT !.currentAct = 3, !.storyPhase = "finale"],
                      pushed, q, Undefined)
             ELSE Out(s, pushed, q, Undefined)
    ELSE Out(s, h, q, Undefined)

restoreCrystal(s, h, q, crystalType) ==
    IF ~Includes(h[s.crystalsRestored], crystalType)
    THEN LET restored == Append(h[s.crystalsRestored], crystalType)
             pushed == [h EXCEPT ![s.crystalsRestored] = restored]
         IN  IF Len(restored) = 1 /\ s.currentAct = 1
             THEN Out([s EXCEPT !.currentAct = 2, !.storyPhase = "exploration"],
                      pushed, q, Undefined)
             ELSE IF Len(restored) = 5
             THEN Out([s EXCEPT !.currentAct = 3, !.storyPhase = "finale"],
                      pushed, q, Undefined)
             ELSE Out(s, pushed, q, Undefined)
    ELSE Out(s, h, q, Undefined)


-----------------------------------------------------------------------------
(* Command parsing.  A string is the sequence of its characters.            *)

UpperCase == <<"A", "B", "C", "D", "E", "F", "G", "H", "I", "J", "K", "L", "M",
               "N", "O", "P", "Q", "R", "S", "T", "U", "V", "W", "X", "Y", "Z">>

LowerCase == <<"a", "b", "c", "d", "e", "f", "g", "h", "i", "j", "k", "l", "m",
               "n", "o", "p", "q", "r", "s", "t", "u", "v", "w", "x", "y", "z">>

\* String.prototype.toLowerCase
ToLowerCase(str) ==
    [i \in 1..Len(str) |->
        IF \E k \in 1..Len(UpperCase) : UpperCase[k] = str[i]
        THEN LowerCase[CHOOSE k \in 1..Len(UpperCase) : UpperCase[k] = str[i]]
        ELSE str[i]]

WhiteSpace == {" ", "\t", "\n", "\r"}

\* String.prototype.trim
Trim(str) ==
    LET solid == {i \in 1..Len(str) : str[i] \notin WhiteSpace}
    IN  IF solid = {} THEN <<>>
        ELSE SubSeq(str, CHOOSE i \in solid : \A j \in solid : i <= j,
                         CHOOSE i \in solid : \A j \in solid : i >= j)

\* String.prototype.includes
StrIncludes(str, sub) ==
    \E i \in 1..(Len(str) - Len(sub) + 1) : SubSeq(str, i, i + Len(sub) - 1) = sub

\* String.prototype.split(' '): the pieces between single spaces
RECURSIVE Split(_)
Split(str) ==
    IF \E i \in 1..Len(str) : str[i] = " "
    THEN LET first == CHOOSE i \in 1..Len(str) :
                          str[i] = " " /\ \A j \in 1..(i - 1) : str[j] # " "
         IN  <<SubSeq(str, 1, first - 1)>> \o Split(SubSeq(str, first + 1, Len(str)))
    ELSE <<str>>

\* Array.prototype.join(' ')
RECURSIVE Join(_)
Join(words) ==
    IF Len(words) = 0 THEN <<>>
    ELSE IF Len(words) = 1 THEN words[1]
    ELSE words[1] \o <<" ">> \o Join(Tail(words))

Unknown == <<"u", "n", "k", "n", "o", "w", "n">>

\* extractTarget(command): words.slice(1).join(' ') || 'unknown'
extractTarget(command) ==
    LET words == Split(command)
        rest == Join(Tail(words))
    IN  IF rest = <<>> THEN Unknown ELSE rest

Attack == <<"a", "t", "t", "a", "c", "k">>

Defend == <<"d", "e", "f", "e", "n", "d">>

Block == <<"b", "l", "o", "c", "k">>

Open == <<"o", "p", "e", "n">>

Unlock == <<"u", "n", "l", "o", "c", "k">>

Pickup == <<"p", "i", "c", "k", "u", "p">>

Take == <<"t", "a", "k", "e">>

Grab == <<"g", "r", "a", "b">>

Use == <<"u", "s", "e">>

Inventory == <<"i", "n", "v", "e", "n", "t", "o", "r", "y">>

\* parseCommand that tests for 'use' before pickup/take/grab
parseCommand_UseBeforePickup(command) ==
    LET lower == Trim(ToLowerCase(command))
    IN  IF StrIncludes(lower, Attack)
        THEN [action |-> "attack", target |-> extractTarget(lower)]
        ELSE IF StrIncludes(lower, Defend) \/ StrIncludes(lower, Block)
        THEN [action |-> "defend"]
        ELSE IF StrIncludes(lower, Open) \/ StrIncludes(lower, Unlock)
        THEN [action |-> "unlock", target |-> extractTarget(lower)]
        ELSE IF StrIncludes(lower, Use)
        THEN [action |-> "use", itemName |-> extractTarget(lower)]
        ELSE IF StrIncludes(lower, Pickup) \/ StrIncludes(lower, Take)
                    \/ StrIncludes(lower, Grab)
        THEN [action |-> "pickup", itemName |-> extractTarget(lower)]
        ELSE IF StrIncludes(lower, Inventory)
        THEN [action |-> "inventory"]
        ELSE [action |-> "explore"]

parseCommand(command) ==
    LET lower == Trim(ToLowerCase(command))
    IN  IF StrIncludes(lower, Attack)
        THEN [action |-> "attack", target |-> extractTarget(lower)]
        ELSE IF StrIncludes(lower, Defend) \/ StrIncludes(lower, Block)
        THEN [action |-> "defend"]
        ELSE IF StrIncludes(lower, Open) \/ StrIncludes(lower, Unlock)
        THEN [action |-> "unlock", target |-> extractTarget(lower)]
        ELSE IF StrIncludes(lower, Pickup) \/ StrIncludes(lower, Take)
                    \/ StrIncludes(lower, Grab)
        THEN [action |-> "pickup", itemName |-> extractTarget(lower)]
        ELSE IF StrIncludes(lower, Use)
        THEN [action |-> "use", itemName |-> extractTarget(lower)]
        ELSE IF StrIncludes(lower, Inventory)
        THEN [action |-> "inventory"]
        ELSE [action |-> "explore"]

-----------------------------------------------------------------------------
(* handleCommand: applying the effects payload of a reply                   *)

\* if (effects.<field>) for a number: present and not 0
TruthyNumber(effects, field) ==
    field \in DOMAIN effects /\ effects[field] # 0

\* if (effects.<field>) for a string: present and not ""
TruthyString(effects, field) ==
    field \in DOMAIN effects /\ effects[field] # ""

\* if (effects.questUpdate): present and not null
TruthyObject(effects, field) ==
    field \in DOMAIN effects /\ effects[field] # Null

\* Math.abs
Abs(n) == IF n < 0 THEN -n ELSE n

\* effects.itemsFound.forEach(item => gameEngine.addItem(item))
AddItems(s, h, q, items) ==
    LET after[k \in 0..Len(items)] ==
            IF k = 0 THEN Out(s, h, q, Undefined)
            ELSE addItem(after[k - 1].state, after[k - 1].heap, after[k - 1].quests,
                         items[k])
    IN  after[Len(items)]

\* Lines 85-91
ApplyHealthChange(s, h, q, effects) ==
    IF TruthyNumber(effects, "healthChange")
    THEN IF effects.healthChange < 0
         THEN takeDamage(s, h, q, Abs(effects.healthChange))
         ELSE heal(s, h, q, effects.healthChange)
    ELSE Out(s, h, q, Undefined)

\* Line 93
ApplyGoldChange(s, h, q, effects) ==
    IF TruthyNumber(effects, "goldChange")
    THEN addGold(s, h, q, effects.goldChange)
    ELSE Out(s, h, q, Undefined)

\* Lines 94-102
ApplyExperienceGain(s, h, q, effects) ==
    IF TruthyNumber(effects, "experienceGain")
    THEN gainExperience(s, h, q, effects.experienceGain)
    ELSE Out(s, h, q, Undefined)

\* A value of the itemsFound field is a sequence: an array of items, or a
\* JSON string, kept as the sequence of its characters [char |-> c].  An
\* array has a forEach method, a string has none.
HasForEach(value) == \A i \in 1..Len(value) : "char" \notin DOMAIN value[i]

\* Lines 104-106.  A string of length > 0 passes the test of line 104 and
\* line 105 throws a TypeError
ApplyItemsFound(s, h, q, effects) ==
    IF "itemsFound" \in DOMAIN effects /\ Len(effects.itemsFound) > 0
    THEN IF HasForEach(effects.itemsFound)
         THEN AddItems(s, h, q, effects.itemsFound)
         ELSE Out(s, h, q, Thrown("TypeError: effects.itemsFound.forEach is not a function"))
    ELSE Out(s, h, q, Undefined)

\* Lines 108-110
ApplyLocationUpdate(s, h, q, effects) ==
    IF TruthyString(effects, "locationUpdate")
    THEN setState(s, h, q, [currentLocation |-> effects.locationUpdate])
    ELSE Out(s, h, q, Undefined)

\* The questUpdate step without the test of the status
ApplyQuestUpdate_AnyStatus(s, h, q, effects) ==
    IF TruthyObject(effects, "questUpdate")
    THEN completeQuest(s, h, q, effects.questUpdate.questId)
    ELSE Out(s, h, q, Undefined)

\* Lines 112-121
ApplyQuestUpdate(s, h, q, effects) ==
    IF TruthyObject(effects, "questUpdate") /\ effects.questUpdate.status = "complete"
    THEN completeQuest(s, h, q, effects.questUpdate.questId)
    ELSE Out(s, h, q, Undefined)

\* Lines 123-129
ApplyCrystalRestored(s, h, q, effects) ==
    IF TruthyString(effects, "crystalRestored")
    THEN restoreCrystal(s, h, q, effects.crystalRestored)
    ELSE Out(s, h, q, Undefined)

\* Lines 82-132: the engine calls one reply makes, in the order of the code,
\* ending with the getState() whose result becomes the page's gameState;
\* a step that throws ends them.
\* Each step is a one-element set, so that it is computed once.
ApplyEffects_ExperienceFirst(s, h, q, effects) ==
    LET A == {ApplyExperienceGain(s, h, q, effects)}
        B == {ApplyGoldChange(a.state, a.heap, a.quests, effects) : a \in A}
        C == {ApplyHealthChange(b.state, b.heap, b.quests, effects) : b \in B}
        D == {ApplyItemsFound(c.state, c.heap, c.quests, effects) : c \in C}
        E == {IF Threw(d) THEN d
              ELSE ApplyLocationUpdate(d.state, d.heap, d.quests, effects) : d \in D}
        F == {IF Threw(e) THEN e
              ELSE ApplyQuestUpdate(e.state, e.heap, e.quests, effects) : e \in E}
        G == {IF Threw(f) THEN f
              ELSE ApplyCrystalRestored(f.state, f.heap, f.quests, effects) : f \in F}
    IN  CHOOSE o \in {IF Threw(g) THEN g
                      ELSE getState(g.state, g.heap, g.quests) : g \in G} : TRUE

ApplyEffects(s, h, q, effects) ==
    LET A == {ApplyHealthChange(s, h, q, effects)}
        B == {ApplyGoldChange(a.state, a.heap, a.quests, effects) : a \in A}
        C == {ApplyExperienceGain(b.state, b.heap, b.quests, effects) : b \in B}
        D == {ApplyItemsFound(c.state, c.heap, c.quests, effects) : c \in C}
        E == {IF Threw(d) THEN d
              ELSE ApplyLocationUpdate(d.state, d.heap, d.quests, effects) : d \in D}
        F == {IF Threw(e) THEN e
              ELSE ApplyQuestUpdate(e.state, e.heap, e.quests, effects) : e \in E}
        G == {IF Threw(f) THEN f
              ELSE ApplyCrystalRestored(f.state, f.heap, f.quests, effects) : f \in F}
    IN  CHOOSE o \in {IF Threw(g) THEN g
                      ELSE getState(g.state, g.heap, g.quests) : g \in G} : TRUE

-----------------------------------------------------------------------------
(* Bounds of the model and the inputs the operations are tried with         *)

MaxLevel == 3

HealthCap == 200

GoldCap == 120

ExperienceCap == 300

MaxInventory == 3

MaxCompleted == 2

MaxActive == 3

MaxCrystals == 6

MaxCallerLength == 2

Bounded(s, h) ==
    /\ s.level <= MaxLevel
    /\ Abs(s.health) <= HealthCap
    /\ Abs(s.gold) <= GoldCap
    /\ Abs(s.experience) <= ExperienceCap
    /\ Len(h[s.inventory]) <= MaxInventory
    /\ Len(h[s.completedQuests]) <= MaxCompleted
    /\ Len(h[s.activeQuests]) <= MaxActive
    /\ Len(h[s.crystalsRestored]) <= MaxCrystals

HealthAmounts == {-50, 0, 50, 150}

GoldAmounts == {-60, 0, 40}

\* Amounts spendGold is tried with: those, and all the gold of INITIAL_STATE
SpendAmounts == GoldAmounts \cup {50}

ExperienceAmounts == {-100, 0, 100, 300}

OldKey ==
    [id |-> "old-key", name |-> "Old Key", type |-> "key",
     value |-> 5, description |-> "Opens something", effect |-> <<>>]

Items == {HealthPotion, OldKey}

ItemIds == {"starter-sword", "health-potion", "old-key", "no-such-item"}

\* Quest objects a caller of addQuest can pass: the object of INITIAL_STATE,
\* a new object with the same id, and a quest of another id
QuestObjects == {AwakeningQuest, "quest:awakening-again", "quest:nature"}

InitialQuests ==
    [o \in QuestObjects |->
        CASE o = AwakeningQuest ->
                [id |-> "awakening", title |-> "The Awakening",
                 description |-> "Meet the Elder and learn about the corrupted crystals",
                 region |-> "Eldergrove", completed |-> FALSE]
          [] o = "quest:awakening-again" ->
                [id |-> "awakening", title |-> "The Awakening",
                 description |-> "Meet the Elder again",
                 region |-> "Eldergrove", completed |-> FALSE]
          [] OTHER ->
                [id |-> "nature-crystal", title |-> "The Nature Crystal",
                 description |-> "Purify the crystal of the Whispering Woods",
                 region |-> "Whispering Woods", completed |-> FALSE,
                 crystal |-> "Nature"]]

QuestIds == {"awakening", "nature-crystal", "no-such-quest"}

\* Crystal names restoreCrystal is tried with: the five, and one that is none of them
CrystalInputs == CrystalNames \cup {"Shadow"}

Locations == {"Eldergrove Village", "Whispering Woods"}

\* Items the inventory methods are tried with, besides those of INITIAL_STATE:
\* a thing that is no potion but has a health effect, a potion whose health
\* effect is 0, and a thing that has the id of the health potion
StoneCharm ==
    [id |-> "stone-charm", name |-> "Stone Charm", type |-> "treasure",
     value |-> 40, description |-> "Warm to the touch", effect |-> [health |-> 10]]

WaterFlask ==
    [id |-> "water-flask", name |-> "Water Flask", type |-> "potion",
     value |-> 1, description |-> "Plain water", effect |-> [health |-> 0]]

EmptyBottle ==
    [id |-> "health-potion", name |-> "Empty Bottle", type |-> "treasure",
     value |-> 1, description |-> "It held a health potion", effect |-> <<>>]

InventoryItems == {HealthPotion, OldKey, StoneCharm, WaterFlask, EmptyBottle}

InventoryItemIds == {"starter-sword", "health-potion", "old-key", "stone-charm",
                     "water-flask", "no-such-item"}

DamageAmounts == {20, 50}

\* Texts parseCommand is tried with: up to MaxWords words joined by single
\* spaces (an empty word gives a leading or trailing space), the example of
\* the specification and a text with two spaces between its words
Look == <<"l", "o", "o", "k">>

The == <<"t", "h", "e">>

Rusty == <<"R", "u", "s", "t", "y">>

House == <<"h", "o", "u", "s", "e">>

AttackCapitals == <<"A", "T", "T", "A", "C", "K">>

TakeTheRustySword == <<"t", "a", "k", "e", " ", "t", "h", "e", " ", "r", "u", "s", "t", "y", " ", "s", "w", "o", "r", "d">>

TakeSwordTwoSpaces == <<"t", "a", "k", "e", " ", " ", "S", "w", "o", "r", "d">>

ParseWords == {Attack, Defend, Block, Open, Unlock, Pickup, Take, Grab, Use, Inventory,
               Look, The, Rusty, House, AttackCapitals, <<>>}

MaxWords == 2

ParseInputs ==
    {Join(words) : words \in UNION {[1..n -> ParseWords] : n \in 1..MaxWords}}
        \cup {TakeTheRustySword, TakeSwordTwoSpaces}

LookAround == <<"L", "o", "o", "k", " ", "a", "r", "o", "u", "n", "d">>

ShowInventory == <<" ", "I", "n", "v", "e", "n", "t", "o", "r", "y">>

Blank == <<" ", " ">>

Commands == {LookAround, ShowInventory, Blank}

-----------------------------------------------------------------------------
(* The state after the module is loaded and the page is mounted             *)

\* An entry of messages
Message(role, content) == [role |-> role, content |-> content]

\* The contents are strings, kept as the sequences of their characters.
\* "You awaken in Eldergrove Village, ... begins now."
StartingNarrative ==
    Message("assistant",
      <<"Y", "o", "u", " ", "a", "w", "a", "k", "e", "n", " ", "i",
        "n", " ", "E", "l", "d", "e", "r", "g", "r", "o", "v", "e",
        " ", "V", "i", "l", "l", "a", "g", "e", ",", " ", "a", " ",
        "p", "e", "a", "c", "e", "f", "u", "l", " ", "s", "e", "t",
        "t", "l", "e", "m", "e", "n", "t", " ", "o", "n", " ", "t",
        "h", "e", " ", "e", "d", "g", "e", " ", "o", "f", " ", "d",
        "a", "r", "k", "n", "e", "s", "s", ".", " ", "T", "h", "e",
        " ", "v", "i", "l", "l", "a", "g", "e", " ", "E", "l", "d",
        "e", "r", " ", "u", "r", "g", "e", "n", "t", "l", "y", " ",
        "s", "e", "e", "k", "s", " ", "y", "o", "u", " ", "-", " ",
        "w", "h", "i", "s", "p", "e", "r", "s", " ", "s", "p", "e",
        "a", "k", " ", "o", "f", " ", "c", "o", "r", "r", "u", "p",
        "t", "e", "d", " ", "c", "r", "y", "s", "t", "a", "l", "s",
        " ", "a", "n", "d", " ", "a", " ", "l", "o", "o", "m", "i",
        "n", "g", " ", "s", "h", "a", "d", "o", "w", ".", " ", "Y",
        "o", "u", "r", " ", "j", "o", "u", "r", "n", "e", "y", " ",
        "a", "s", " ", "t", "h", "e", " ", "C", "h", "o", "s", "e",
        "n", " ", "O", "n", "e", " ", "b", "e", "g", "i", "n", "s",
        " ", "n", "o", "w", ".">>)

\* "Opening your inventory..."
OpeningInventory ==
    Message("assistant",
      <<"O", "p", "e", "n", "i", "n", "g", " ", "y", "o", "u", "r",
        " ", "i", "n", "v", "e", "n", "t", "o", "r", "y", ".", ".",
        ".">>)

\* "The mystical forces are disturbed... Try again."
ForcesDisturbed ==
    Message("assistant",
      <<"T", "h", "e", " ", "m", "y", "s", "t", "i", "c", "a", "l",
        " ", "f", "o", "r", "c", "e", "s", " ", "a", "r", "e", " ",
        "d", "i", "s", "t", "u", "r", "b", "e", "d", ".", ".", ".",
        " ", "T", "r", "y", " ", "a", "g", "a", "i", "n", ".">>)

Init ==
    /\ state = constructor(INITIAL_STATE)
    /\ heap = InitialHeap
    /\ quests = InitialQuests
    /\ gameState = getState(constructor(INITIAL_STATE), InitialHeap, InitialQuests).ret
    /\ ret = getState(constructor(INITIAL_STATE), InitialHeap, InitialQuests).ret
    /\ isLoading = FALSE
    /\ inFlight = <<>>
    /\ commandText = <<>>
    /\ lastMessage = StartingNarrative

-----------------------------------------------------------------------------
(* Engine calls                                                             *)

\* One call of an engine method: its outcome becomes the engine's world
Call(out) ==
    \E o \in {out} :
        /\ Bounded(o.state, o.heap)
        /\ state' = o.state
        /\ quests' = o.quests
        /\ heap' = Collect(o.heap, {INITIAL_STATE, o.state, gameState})
        /\ ret' = o.ret
        /\ UNCHANGED <<gameState, isLoading, inFlight, commandText, lastMessage>>

SetState(newState) == Call(setState(state, heap, quests, newState))

TakeDamage(amount) == Call(takeDamage(state, heap, quests, amount))

Heal(amount) == Call(heal(state, heap, quests, amount))

AddItem(item) == Call(addItem(state, heap, quests, item))

RemoveItem(itemId) == Call(removeItem(state, heap, quests, itemId))

UseItem(itemId) == Call(useItem(state, heap, quests, itemId))

AddGold(amount) == Call(addGold(state, heap, quests, amount))

SpendGold(amount) == Call(spendGold(state, heap, quests, amount))

GainExperience(amount) ==
    Call(gainExperience(state, heap, quests, amount))

CompleteQuest(questId) ==
    /\ CanAllocate(heap)
    /\ Call(completeQuest(state, heap, quests, questId))

AddQuest(quest) == Call(addQuest(state, heap, quests, quest))

RestoreCrystal(crystalType) ==
    Call(restoreCrystal(state, heap, quests, crystalType))

-----------------------------------------------------------------------------
(* The page: handleCommand                                                  *)

\* handleCommand without the test of isLoading
HandleCommand_NoLoadingTest(cmd) ==
    /\ ~(Trim(cmd) = <<>>)
    /\ IF parseCommand(cmd).action = "inventory"
       THEN /\ isLoading' = FALSE
            /\ ret' = parseCommand(cmd)
            /\ lastMessage' = OpeningInventory
            /\ UNCHANGED inFlight
       ELSE /\ isLoading' = TRUE
            /\ ret' = getState(state, heap, quests).ret
            /\ lastMessage' = Message("user", cmd)
            /\ inFlight' = Append(inFlight, [action |-> cmd])
    /\ commandText' = <<>>
    /\ UNCHANGED <<state, heap, quests, gameState>>

\* Lines 42-77: from the submit to the call of the dungeon-master function
HandleCommand(cmd) ==
    /\ ~(Trim(cmd) = <<>> \/ isLoading)
    /\ IF parseCommand(cmd).action = "inventory"
       THEN /\ isLoading' = FALSE
            /\ ret' = parseCommand(cmd)
            /\ lastMessage' = OpeningInventory
            /\ UNCHANGED inFlight
       ELSE /\ isLoading' = TRUE
            /\ ret' = getState(state, heap, quests).ret
            /\ lastMessage' = Message("user", cmd)
            /\ inFlight' = Append(inFlight, [action |-> cmd])
    /\ commandText' = <<>>
    /\ UNCHANGED <<state, heap, quests, gameState>>

\* Lines 79-156: the function answered, without an error.  When applying
\* the effects throws, the catch block is run and the lines after the throw
\* (the rest of the effects, setGameState, the narrative) are not
ServiceReply(i, data) ==
    /\ i \in 1..Len(inFlight)
    /\ CanAllocate(heap)
    /\ \E o \in {IF "gameEffects" \in DOMAIN data
                 THEN ApplyEffects(state, heap, quests, data.gameEffects)
                 ELSE getState(state, heap, quests)} :
           /\ Bounded(o.state, o.heap)
           /\ state' = o.state
           /\ quests' = o.quests
           /\ ret' = o.ret
           /\ IF Threw(o)
              THEN /\ UNCHANGED gameState
                   /\ heap' = Collect(o.heap, {INITIAL_STATE, o.state, gameState})
                   /\ lastMessage' = ForcesDisturbed
              ELSE /\ gameState' = o.ret
                   /\ heap' = Collect(o.heap, {INITIAL_STATE, o.state, o.ret})
                   /\ lastMessage' = Message("assistant", data.narrative)
    /\ isLoading' = FALSE
    /\ inFlight' = RemoveAt(inFlight, i)
    /\ UNCHANGED commandText

\* The error path without the finally block: isLoading is left as it is
ServiceError_KeepsLoading(i) ==
    /\ i \in 1..Len(inFlight)
    /\ inFlight' = RemoveAt(inFlight, i)
    /\ lastMessage' = ForcesDisturbed
    /\ UNCHANGED <<state, heap, quests, ret, gameState, commandText, isLoading>>

\* Lines 79, 142-156: the function answered with an error
ServiceError(i) ==
    /\ i \in 1..Len(inFlight)
    /\ isLoading' = FALSE
    /\ inFlight' = RemoveAt(inFlight, i)
    /\ lastMessage' = ForcesDisturbed
    /\ UNCHANGED <<state, heap, quests, ret, gameState, commandText>>


-----------------------------------------------------------------------------
(* Effect payloads the dungeon-master function is taken to answer with      *)

\* A payload with every field, as the function's prompt asks for it
Effects(hc, gc, xp, items, loc, qu, cr) ==
    [healthChange |-> hc, goldChange |-> gc, experienceGain |-> xp,
     itemsFound |-> items, locationUpdate |-> loc, questUpdate |-> qu,
     crystalRestored |-> cr]

\* The payload of the function's fallback: every field zero, empty or null
NoEffects == Effects(0, 0, 0, <<>>, "", Null, "")

GoldPayloads ==
    {[NoEffects EXCEPT !.goldChange = gc] : gc \in GoldAmounts} \cup {[goldChange |-> 40]}

CrystalPayloads ==
    {[NoEffects EXCEPT !.crystalRestored = c] : c \in CrystalInputs \cup {""}}
        \cup {[NoEffects EXCEPT !.locationUpdate = "Whispering Woods"],
              [crystalRestored |-> "Nature"]}

QuestPayloads ==
    {[NoEffects EXCEPT !.questUpdate = [questId |-> id, status |-> st]] :
        id \in QuestIds, st \in {"complete", "active"}}
        \cup {NoEffects}

\* The narrative of the replies whose text is of no interest: "..."
SomeNarrative == <<".", ".", ".">>

Replies(payloads) ==
    {[narrative |-> SomeNarrative, gameEffects |-> e] : e \in payloads}
        \cup {[narrative |-> SomeNarrative]}

-----------------------------------------------------------------------------
(* Specifications.  The operations fall into groups that touch different    *)
(* fields of the state; each specification runs one group over its inputs.  *)

\* Direct calls of the engine's health, experience and inventory methods
NextVitals ==
    \/ \E amount \in HealthAmounts : TakeDamage(amount)
    \/ \E amount \in HealthAmounts : Heal(amount)
    \/ \E item \in Items : AddItem(item)
    \/ \E itemId \in ItemIds : RemoveItem(itemId)
    \/ \E itemId \in ItemIds : UseItem(itemId)
    \/ \E amount \in ExperienceAmounts : GainExperience(amount)

SpecVitals == Init /\ [][NextVitals]_vars

\* Direct calls of spendGold, and commands whose payloads carry a goldChange
\* (which handleCommand passes to addGold)
NextGold ==
    \/ \E amount \in SpendAmounts : SpendGold(amount)
    \/ \E cmd \in Commands : HandleCommand(cmd)
    \/ \E i \in 1..Len(inFlight), data \in Replies(GoldPayloads) : ServiceReply(i, data)
    \/ \E i \in 1..Len(inFlight) : ServiceError(i)

SpecGold == Init /\ [][NextGold]_vars

\* Direct calls of the engine's crystal and location methods, and commands
\* whose payloads carry a crystalRestored or a locationUpdate
NextCrystals ==
    \/ \E loc \in Locations : SetState([currentLocation |-> loc])
    \/ \E crystalType \in CrystalInputs : RestoreCrystal(crystalType)
    \/ \E cmd \in Commands : HandleCommand(cmd)
    \/ \E i \in 1..Len(inFlight), data \in Replies(CrystalPayloads) : ServiceReply(i, data)
    \/ \E i \in 1..Len(inFlight) : ServiceError(i)

SpecCrystals == Init /\ [][NextCrystals]_vars

\* Direct calls of the engine's quest methods, and commands whose payloads
\* carry a questUpdate
NextQuests ==
    \/ \E questId \in QuestIds : CompleteQuest(questId)
    \/ \E quest \in QuestObjects : AddQuest(quest)
    \/ \E cmd \in Commands : HandleCommand(cmd)
    \/ \E i \in 1..Len(inFlight), data \in Replies(QuestPayloads) : ServiceReply(i, data)
    \/ \E i \in 1..Len(inFlight) : ServiceError(i)

SpecQuests == Init /\ [][NextQuests]_vars

\* A caller that holds the record getState() returned (the page holds it as
\* gameState) and changes it: the arrays and quest objects it reaches
CallerPush(field, value) ==
    /\ Len(heap[gameState[field]]) < MaxCallerLength
    /\ heap' = [heap EXCEPT ![gameState[field]] = Append(@, value)]
    /\ UNCHANGED <<state, quests, ret, gameState, isLoading, inFlight, commandText, lastMessage>>

CallerPop(field) ==
    /\ Len(heap[gameState[field]]) > 0
    /\ heap' = [heap EXCEPT ![gameState[field]] = SubSeq(@, 1, Len(@) - 1)]
    /\ UNCHANGED <<state, quests, ret, gameState, isLoading, inFlight, commandText, lastMessage>>

CallerSetCompleted(i, flag) ==
    /\ i \in 1..Len(heap[gameState.activeQuests])
    /\ quests' = [quests EXCEPT ![heap[gameState.activeQuests][i]].completed = flag]
    /\ UNCHANGED <<state, heap, ret, gameState, isLoading, inFlight, commandText, lastMessage>>

\* An assignment to a number of the returned record, which is the caller's own
CallerSetHealth(n) ==
    /\ gameState' = [gameState EXCEPT !.health = n]
    /\ UNCHANGED <<state, heap, quests, ret, isLoading, inFlight, commandText, lastMessage>>

CallerChanges ==
    \/ \E item \in {OldKey} : CallerPush("inventory", item)
    \/ \E quest \in {"quest:nature"} : CallerPush("activeQuests", quest)
    \/ \E id \in {"awakening"} : CallerPush("completedQuests", id)
    \/ \E c \in {"Nature"} : CallerPush("crystalsRestored", c)
    \/ \E field \in {"inventory", "activeQuests", "completedQuests", "crystalsRestored"} :
          CallerPop(field)
    \/ \E i \in 1..MaxActive, flag \in BOOLEAN : CallerSetCompleted(i, flag)
    \/ \E n \in {0} : CallerSetHealth(n)

EngineChanges ==
    \/ \E item \in {OldKey} : AddItem(item)
    \/ \E questId \in {"awakening"} : CompleteQuest(questId)

\* A caller that changes what getState() returned, between calls of the engine
\* and commands of the page (each answered command takes a new getState())
NextCaller ==
    \/ CallerChanges
    \/ EngineChanges
    \/ \E cmd \in Commands : HandleCommand(cmd)
    \/ \E i \in 1..Len(inFlight), data \in Replies({NoEffects}) : ServiceReply(i, data)
    \/ \E i \in 1..Len(inFlight) : ServiceError(i)

SpecCaller == Init /\ [][NextCaller]_vars

\* Direct calls of the engine's inventory methods, with damage taken in between
NextInventory ==
    \/ \E item \in InventoryItems : AddItem(item)
    \/ \E itemId \in InventoryItemIds : RemoveItem(itemId)
    \/ \E itemId \in InventoryItemIds : UseItem(itemId)
    \/ \E amount \in DamageAmounts : TakeDamage(amount)

SpecInventory == Init /\ [][NextInventory]_vars

\* The state of the page with a text typed into the command field
InitParse ==
    /\ state = constructor(INITIAL_STATE)
    /\ heap = InitialHeap
    /\ quests = InitialQuests
    /\ gameState = getState(constructor(INITIAL_STATE), InitialHeap, InitialQuests).ret
    /\ ret = getState(constructor(INITIAL_STATE), InitialHeap, InitialQuests).ret
    /\ isLoading = FALSE
    /\ inFlight = <<>>
    /\ commandText \in ParseInputs
    /\ lastMessage = StartingNarrative

\* A call of gameEngine.parseCommand with the text typed
ParseCommand ==
    /\ ret' = parseCommand(commandText)
    /\ UNCHANGED <<state, heap, quests, gameState, isLoading, inFlight, commandText, lastMessage>>

NextParse == ParseCommand

SpecParse == InitParse /\ [][NextParse]_vars

\* Payloads with several fields at once, and some with a single field
PagePayloads ==
    {NoEffects,
     Effects(-50, 40, 100, <<HealthPotion>>, "Whispering Woods",
             [questId |-> "awakening", status |-> "complete"], "Nature"),
     Effects(50, -60, 0, <<>>, "", Null, "Fire"),
     Effects(0, 0, 300, <<OldKey>>, "Eldergrove Village", Null, ""),
     Effects(0, 40, 0, <<>>, "", Null, "Water"),
     [healthChange |-> -150],
     [healthChange |-> 50],
     [experienceGain |-> 100],
     [questUpdate |-> [questId |-> "awakening", status |-> "complete"]],
     [NoEffects EXCEPT !.questUpdate = [questId |-> "awakening", status |-> "active"]],
     Effects(-150, 0, 100, <<>>, "Sunken Ruins", Null, "")}

\* A payload whose itemsFound is the string "a key" instead of an array
MalformedPayloads ==
    {Effects(-50, 40, 100,
             <<[char |-> "a"], [char |-> " "], [char |-> "k"], [char |-> "e"], [char |-> "y"]>>,
             "Whispering Woods", Null, "Fire")}

\* The page alone: commands submitted, answered and failed
NextPage ==
    \/ \E cmd \in Commands : HandleCommand(cmd)
    \/ \E i \in 1..Len(inFlight), data \in Replies(PagePayloads \cup MalformedPayloads) :
          ServiceReply(i, data)
    \/ \E i \in 1..Len(inFlight) : ServiceError(i)

SpecPage == Init /\ [][NextPage]_vars

\* The call of the function is rejected
Rejected == \E i \in 1..Len(inFlight) : ServiceError(i)

\* The page, with every call of the function answered in the end: a call
\* that no reply answers does not stay outstanding for ever, it is rejected
SpecPageAnswered == SpecPage /\ WF_vars(Rejected)

\* Direct calls of the mutators that write to the arrays and the quests
NextOwner ==
    \/ \E item \in {OldKey} : AddItem(item)
    \/ \E itemId \in {"health-potion", "old-key"} : RemoveItem(itemId)
    \/ \E itemId \in {"health-potion"} : UseItem(itemId)
    \/ \E questId \in {"awakening", "nature-crystal"} : CompleteQuest(questId)
    \/ \E quest \in QuestObjects : AddQuest(quest)
    \/ \E crystalType \in {"Nature", "Fire"} : RestoreCrystal(crystalType)

SpecOwner == Init /\ [][NextOwner]_vars

\* Direct calls of the mutators that write level, maxHealth and currentAct,
\* and of those that write the health gainExperience resets
NextProgress ==
    \/ \E amount \in ExperienceAmounts : GainExperience(amount)
    \/ \E crystalType \in CrystalNames : RestoreCrystal(crystalType)
    \/ \E amount \in {50} : TakeDamage(amount)
    \/ \E amount \in {50} : Heal(amount)

SpecProgress == Init /\ [][NextProgress]_vars

-----------------------------------------------------------------------------
(* The dungeon-master function: what it makes of the text the language      *)
(* model replied with.  A text is the sequence of its characters.           *)

\* The grave accent (U+0060), written by its name
GraveAccent == "GRAVE ACCENT"

Fence == <<GraveAccent, GraveAccent, GraveAccent>>

FenceJson == Fence \o <<"j", "s", "o", "n">>

\* The first position from the given one on at which sub occurs in str, 0 when none
IndexOf(str, sub, from) ==
    LET found == {i \in from..(Len(str) - Len(sub) + 1) :
                     SubSeq(str, i, i + Len(sub) - 1) = sub}
    IN  IF found = {} THEN 0 ELSE CHOOSE i \in found : \A j \in found : i <= j

\* content.match(/<open>\s*([\s\S]*?)\s*<fence>/): the group it captures, what
\* stands between the opening and the next fence without the white space
\* around it; Null when there is no match
MatchFence(content, open) ==
    LET first == IndexOf(content, open, 1)
        after == first + Len(open)
        close == IndexOf(content, Fence, after)
    IN  IF first = 0 \/ close = 0 THEN Null
        ELSE [group |-> Trim(SubSeq(content, after, close - 1))]

\* Texts that are JSON documents
GoldDocument ==
    <<"{", "\"", "n", "a", "r", "r", "a", "t", "i", "v", "e", "\"", ":",
      "\"", "H", "i", "\"", ",", "\"", "g", "a", "m", "e", "E", "f", "f",
      "e", "c", "t", "s", "\"", ":", "{", "\"", "g", "o", "l", "d", "C",
      "h", "a", "n", "g", "e", "\"", ":", "4", "0", "}", "}">>

FightDocument ==
    <<"{", "\"", "n", "a", "r", "r", "a", "t", "i", "v", "e", "\"", ":",
      "\"", "O", "w", "\"", ",", "\"", "g", "a", "m", "e", "E", "f", "f",
      "e", "c", "t", "s", "\"", ":", "{", "\"", "h", "e", "a", "l", "t",
      "h", "C", "h", "a", "n", "g", "e", "\"", ":", "-", "5", "0", ",",
      "\"", "e", "x", "p", "e", "r", "i", "e", "n", "c", "e", "G", "a",
      "i", "n", "\"", ":", "1", "0", "0", "}", "}">>

TravelDocument ==
    <<"{", "\"", "n", "a", "r", "r", "a", "t", "i", "v", "e", "\"", ":",
      "\"", "G", "o", "\"", ",", "\"", "g", "a", "m", "e", "E", "f", "f",
      "e", "c", "t", "s", "\"", ":", "{", "\"", "l", "o", "c", "a", "t",
      "i", "o", "n", "U", "p", "d", "a", "t", "e", "\"", ":", "\"", "W",
      "h", "i", "s", "p", "e", "r", "i", "n", "g", " ", "W", "o", "o", "d",
      "s", "\"", ",", "\"", "c", "r", "y", "s", "t", "a", "l", "R", "e",
      "s", "t", "o", "r", "e", "d", "\"", ":", "\"", "N", "a", "t", "u",
      "r", "e", "\"", "}", "}">>

NarrativeDocument ==
    <<"{", "\"", "n", "a", "r", "r", "a", "t", "i", "v", "e", "\"", ":",
      "\"", "H", "i", "\"", "}">>

NullDocument == <<"n", "u", "l", "l">>

\* JSON.parse: the value of a text that is a JSON document, a SyntaxError
\* for every other text
JSONparse(text) ==
    IF text = GoldDocument
    THEN [narrative |-> <<"H", "i">>, gameEffects |-> [goldChange |-> 40]]
    ELSE IF text = FightDocument
    THEN [narrative |-> <<"O", "w">>,
          gameEffects |-> [healthChange |-> -50, experienceGain |-> 100]]
    ELSE IF text = TravelDocument
    THEN [narrative |-> <<"G", "o">>,
          gameEffects |-> [locationUpdate |-> "Whispering Woods",
                           crystalRestored |-> "Nature"]]
    ELSE IF text = NarrativeDocument
    THEN [narrative |-> <<"H", "i">>]
    ELSE IF text = NullDocument
    THEN Null
    ELSE [thrown |-> "SyntaxError"]

\* Lines 104-112: the try block
ParseContent(content) ==
    LET jsonMatch == IF MatchFence(content, FenceJson) # Null
                     THEN MatchFence(content, FenceJson)
                     ELSE MatchFence(content, Fence)
    IN  IF jsonMatch # Null THEN JSONparse(jsonMatch.group) ELSE JSONparse(content)

Unparseable(content) == "thrown" \in DOMAIN ParseContent(content)

\* Lines 113-128: the catch block
Fallback(content) ==
    [narrative |-> content,
     sceneDescription |-> SubSeq(content, 1, Min(200, Len(content))),
     gameEffects |-> [healthChange |-> 0, goldChange |-> 0, experienceGain |-> 0,
                      itemsFound |-> <<>>, locationUpdate |-> "",
                      questUpdate |-> Null, crystalRestored |-> ""]]

Response(status, body) == [status |-> status, body |-> body]

dungeonMaster_NoFallback(content) ==
    LET parsedContent == ParseContent(content)
    IN  IF parsedContent = Null \/ Unparseable(content)
        THEN Response(500, [error |-> "Error"])
        ELSE Response(200,
                 [narrative |-> parsedContent.narrative,
                  sceneDescription |->
                      IF "sceneDescription" \in DOMAIN parsedContent
                      THEN parsedContent.sceneDescription ELSE Undefined,
                  gameEffects |->
                      IF "gameEffects" \in DOMAIN parsedContent
                      THEN parsedContent.gameEffects ELSE <<>>])

\* Lines 101-180 for a reply text of the language model.  Reading a property
\* of null throws, which the outer catch answers with status 500; the image
\* is generated after the parsing, its failure is caught and the page's
\* image is no part of this model.  {} is the record without fields.
dungeonMaster(content) ==
    LET parsedContent == IF Unparseable(content) THEN Fallback(content)
                         ELSE ParseContent(content)
    IN  IF parsedContent = Null
        THEN Response(500, [error |-> "TypeError"])
        ELSE Response(200,
                 [narrative |-> parsedContent.narrative,
                  sceneDescription |->
                      IF "sceneDescription" \in DOMAIN parsedContent
                      THEN parsedContent.sceneDescription ELSE Undefined,
                  gameEffects |->
                      IF "gameEffects" \in DOMAIN parsedContent
                      THEN parsedContent.gameEffects ELSE <<>>])

\* Reply texts that are no JSON: prose, nothing, a fenced block that breaks
\* off, a document that breaks off
PlainText ==
    <<"Y", "o", "u", " ", "s", "e", "e", " ", "a", " ", "d", "o", "o", "r",
      ".">>

EmptyText == <<>>

BrokenFence ==
    FenceJson \o <<"\n", "{", "o", "o", "p", "s", "\n">> \o Fence

BrokenDocument ==
    <<"{", "\"", "n", "a", "r", "r", "a", "t", "i", "v", "e", "\"", ":",
      "\"", "H", "i", "\"">>

\* A document inside a fenced block, with prose before it
FencedDocument ==
    <<"O", "k", ":", "\n">> \o FenceJson \o <<"\n">> \o GoldDocument \o <<"\n">> \o Fence

ReplyTexts ==
    {PlainText, EmptyText, BrokenFence, BrokenDocument, GoldDocument,
     FightDocument, TravelDocument, NarrativeDocument, NullDocument,
     FencedDocument}

\* The function answers an outstanding call with what it makes of the text
DungeonMasterAnswers(i, content) ==
    IF dungeonMaster(content).status = 200
    THEN ServiceReply(i, dungeonMaster(content).body)
    ELSE ServiceError(i)

\* The page with the function behind it
NextFunction ==
    \/ \E cmd \in Commands : HandleCommand(cmd)
    \/ \E i \in 1..Len(inFlight), content \in ReplyTexts : DungeonMasterAnswers(i, content)
    \/ \E i \in 1..Len(inFlight) : ServiceError(i)

SpecFunction == Init /\ [][NextFunction]_vars

\* Everything the engine and the page can do
Next ==
    \/ NextVitals
    \/ NextGold
    \/ NextCrystals
    \/ NextQuests
    \/ NextCaller
    \/ NextInventory
    \/ NextPage
    \/ NextParse
    \/ NextOwner
    \/ NextProgress
    \/ NextFunction
    \/ \E amount \in GoldAmounts : AddGold(amount)

Spec == Init /\ [][Next]_vars

-----------------------------------------------------------------------------
(* Properties                                                               *)

Crystals == heap[state.crystalsRestored]

ActiveIds == {quests[heap[state.activeQuests][i]].id : i \in 1..Len(heap[state.activeQuests])}

\* What the engine's state shows, and what the record the caller holds shows
EngineView == View(state, heap, quests)

ReturnedView == View(gameState, heap, quests)

\* C1: after any sequence of engine operations, with any integer amounts
\* (negative ones too), 0 <= health <= maxHealth.
C1_HealthWithinMaxHealth ==
    0 <= state.health /\ state.health <= state.maxHealth

\* C2: gold is never negative, whatever spendGold calls are made and whatever
\* goldChange the payloads of the answered commands carry.
C2_GoldNeverNegative == state.gold >= 0

\* C3: getState() returns a defensive copy: no change a caller makes to the
\* returned record (its arrays, its quests' completed flags) changes what the
\* engine holds, and no later engine call changes what the returned record shows.
C3_GetStateIsDefensiveCopy ==
    [][/\ CallerChanges => EngineView' = EngineView
       /\ EngineChanges => ReturnedView' = ReturnedView]_vars

C5_NoQuestActiveAndCompleted ==
    ActiveIds \cap Range(heap[state.completedQuests]) = {}

\* C6: crystalsRestored never holds a name twice, and its length never decreases.
C6_CrystalsDistinctAndGrowing ==
    /\ []NoDuplicates(Crystals)
    /\ [][Len(Crystals') >= Len(Crystals)]_vars

\* Every name restoreCrystal was tried with is restored, each once
C6_Witness ==
    /\ Len(Crystals) = Cardinality(CrystalInputs)
    /\ Crystals[1] = "Water"

\* C7: every element of crystalsRestored is one of Nature, Water, Fire, Air,
\* Earth, so its length never exceeds 5, whatever string restoreCrystal is given.
C7_CrystalsAreTheFive ==
    /\ Range(Crystals) \subseteq CrystalNames
    /\ Len(Crystals) <= 5

\* C8: in whatever order the crystals are restored, the act becomes 3 and the
\* phase finale in the step that brings crystalsRestored to length 5, not before.
C8_FinaleAtFifthCrystal ==
    /\ [](Len(Crystals) < 5 => state.currentAct # 3 /\ state.storyPhase # "finale")
    /\ [][Len(Crystals) = 4 /\ Len(Crystals') = 5 =>
             state'.currentAct = 3 /\ state'.storyPhase = "finale"]_vars

\* The five crystals, restored in the order Earth, Air, Fire, Water, Nature
C8_Witness ==
    /\ Crystals = <<"Earth", "Air", "Fire", "Water", "Nature">>
    /\ state.currentAct = 3
    /\ state.storyPhase = "finale"

\* C9: in every reachable state, restoreCrystal of the first crystal while
\* currentAct is 1 gives act 2 and phase exploration, and restoreCrystal of a
\* crystal already restored leaves the state, the arrays and the quests as they are.
C9_RestoreCrystalFirstAndAgain ==
    \A c \in CrystalInputs :
        \E o \in {restoreCrystal(state, heap, quests, c)} :
            /\ Len(Crystals) = 0 /\ state.currentAct = 1 =>
                  /\ o.state.currentAct = 2
                  /\ o.state.storyPhase = "exploration"
                  /\ o.heap[o.state.crystalsRestored] = <<c>>
            /\ Includes(Crystals, c) =>
                  o.state = state /\ o.heap = heap /\ o.quests = quests

\* One crystal restored from the initial state, and a second one after it
C9_Witness ==
    /\ Crystals = <<"Nature", "Fire">>
    /\ state.currentAct = 2
    /\ state.storyPhase = "exploration"

\* C10: when gainExperience(amount) returns, for an amount >= 0, experience is
\* below level * 100 (a large amount raises the level more than once).
C10_ExperienceBelowThreshold ==
    state.experience < state.level * 100

\* C11: in every reachable state, gainExperience(amount) with
\* experience + amount >= level * 100 raises level by one, takes the old
\* threshold from experience, adds 20 to maxHealth, sets health to the new
\* maxHealth and returns leveledUp = true with the new level; otherwise it
\* changes experience only and returns leveledUp = false.
C11_GainExperienceLevelsUpOnce ==
    \A amount \in ExperienceAmounts :
        \E o \in {gainExperience(state, heap, quests, amount)} :
            /\ o.heap = heap /\ o.quests = quests
            /\ IF state.experience + amount >= state.level * 100
               THEN /\ o.state.level = state.level + 1
                    /\ o.state.experience = state.experience + amount - state.level * 100
                    /\ o.state.maxHealth = state.maxHealth + 20
                    /\ o.state.health = o.state.maxHealth
                    /\ \A f \in DOMAIN state \ {"level", "experience", "maxHealth", "health"} :
                          o.state[f] = state[f]
                    /\ o.ret = [leveledUp |-> TRUE, newLevel |-> state.level + 1]
               ELSE /\ o.state.experience = state.experience + amount
                    /\ \A f \in DOMAIN state \ {"experience"} : o.state[f] = state[f]
                    /\ o.ret = [leveledUp |-> FALSE]

\* gainExperience(100) at level 1 has returned: level 2, experience 0,
\* maxHealth 120, health 120
C11_Witness ==
    /\ ret = [leveledUp |-> TRUE, newLevel |-> 2]
    /\ state.level = 2
    /\ state.experience = 0
    /\ state.maxHealth = 120
    /\ state.health = 120

InventoryItemsNow == heap[state.inventory]

\* The positions of the inventory entries with the given id
Matches(itemId) == {i \in 1..Len(InventoryItemsNow) : InventoryItemsNow[i].id = itemId}

\* The first of them
FirstMatch(itemId) == CHOOSE i \in Matches(itemId) : \A j \in Matches(itemId) : i <= j

\* C12: in every reachable state, useItem(itemId), when the first inventory
\* entry with that id is a potion with a (non-zero) health effect, heals by
\* that amount capped at maxHealth, removes that one entry and reports success
\* with the amount healed; in every other case it reports failure and leaves
\* the state, the arrays and the quests as they are.
C12_UseItemHealsAndRemovesOrFails ==
    \A itemId \in InventoryItemIds :
        \E o \in {useItem(state, heap, quests, itemId)} :
            IF /\ Matches(itemId) # {}
               /\ InventoryItemsNow[FirstMatch(itemId)].type = "potion"
               /\ "health" \in DOMAIN InventoryItemsNow[FirstMatch(itemId)].effect
               /\ InventoryItemsNow[FirstMatch(itemId)].effect.health # 0
            THEN /\ o.state.health =
                        Min(state.maxHealth,
                            state.health + InventoryItemsNow[FirstMatch(itemId)].effect.health)
                 /\ o.state = [state EXCEPT !.health = o.state.health]
                 /\ o.heap = [heap EXCEPT ![state.inventory] =
                                  SubSeq(@, 1, FirstMatch(itemId) - 1)
                                      \o SubSeq(@, FirstMatch(itemId) + 1, Len(@))]
                 /\ o.quests = quests
                 /\ o.ret.success = TRUE
                 /\ o.ret.effect.healthRestored = o.state.health - state.health
            ELSE /\ o.state = state /\ o.heap = heap /\ o.quests = quests
                 /\ o.ret.success = FALSE

\* useItem('health-potion') on INITIAL_STATE has returned: nothing healed,
\* the potion gone
C12_Witness ==
    /\ "success" \in DOMAIN ret
    /\ ret.success = TRUE
    /\ ret.effect.healthRestored = 0
    /\ state.health = 100
    /\ InventoryItemsNow = <<StarterSword>>

\* C13: in every reachable state, spendGold(amount) with amount > gold returns
\* false and leaves gold and every other field as they are, and with
\* amount <= gold returns true and takes exactly amount from gold.
C13_SpendGoldAllOrNothing ==
    \A amount \in SpendAmounts :
        \E o \in {spendGold(state, heap, quests, amount)} :
            /\ o.heap = heap /\ o.quests = quests
            /\ IF amount > state.gold
               THEN o.state = state /\ o.ret = Boolean(FALSE)
               ELSE /\ o.state.gold = state.gold - amount
                    /\ \A f \in DOMAIN state \ {"gold"} : o.state[f] = state[f]
                    /\ o.ret = Boolean(TRUE)

\* spendGold(50) has taken all the gold of INITIAL_STATE
C13_Witness ==
    /\ ret = Boolean(TRUE)
    /\ state.gold = 0

\* C14: in every reachable state with 0 <= health <= maxHealth and for every
\* amount >= 0, heal(amount) sets health to min(maxHealth, health + amount),
\* returns min(amount, maxHealth - health before) and changes nothing else.
C14_HealCapsAtMaxHealth ==
    \A amount \in HealthAmounts :
        (amount >= 0 /\ 0 <= state.health /\ state.health <= state.maxHealth) =>
            \E o \in {heal(state, heap, quests, amount)} :
                /\ o.state.health = Min(state.maxHealth, state.health + amount)
                /\ \A f \in DOMAIN state \ {"health"} : o.state[f] = state[f]
                /\ o.heap = heap /\ o.quests = quests
                /\ o.ret = Number(Min(amount, state.maxHealth - state.health))

\* heal(150) at health 0 has returned 100, the room there was
C14_Witness ==
    /\ ret = Number(100)
    /\ state.health = 100
    /\ state.maxHealth = 100

\* C15: in every reachable state and for every amount >= 0, takeDamage(amount)
\* sets health to max(0, health - amount) and returns that health, with isDead
\* true exactly when it is 0.  Death is only reported: at health 0 heal,
\* gainExperience, addItem and useItem do what they do at any other health,
\* and heal and a level-up raise health again.
C15_TakeDamageReportsDeath ==
    /\ \A amount \in HealthAmounts :
          amount >= 0 =>
              \E o \in {takeDamage(state, heap, quests, amount)} :
                  /\ o.state.health = Max(0, state.health - amount)
                  /\ \A f \in DOMAIN state \ {"health"} : o.state[f] = state[f]
                  /\ o.heap = heap /\ o.quests = quests
                  /\ o.ret.newHealth = o.state.health
                  /\ o.ret.isDead = (o.state.health = 0)
    /\ state.health = 0 =>
          /\ \A amount \in HealthAmounts :
                amount > 0 =>
                    heal(state, heap, quests, amount).state.health
                        = Min(state.maxHealth, amount)
          /\ \A amount \in ExperienceAmounts :
                \E o \in {gainExperience(state, heap, quests, amount)} :
                    IF state.experience + amount >= state.level * 100
                    THEN o.state.health = state.maxHealth + 20 /\ o.ret.leveledUp
                    ELSE o.state.experience = state.experience + amount
          /\ \A item \in Items :
                addItem(state, heap, quests, item).heap[state.inventory]
                    = Append(heap[state.inventory], item)
          /\ heap[state.inventory] # <<>> /\ heap[state.inventory][1] = HealthPotion =>
                \E o \in {useItem(state, heap, quests, "health-potion")} :
                    o.ret.success /\ o.state.health = Min(state.maxHealth, 30)

\* heal(50) has returned 50 and health is 50: health was 0 when it was called
C15_Witness ==
    /\ ret = Number(50)
    /\ state.health = 50

Completed == heap[state.completedQuests]

Active == heap[state.activeQuests]

\* C16: in every reachable state, completeQuest(questId), when an active quest
\* has that id, appends the id at the end of completedQuests and leaves no
\* quest of that id in activeQuests (the other quests stay, in their order);
\* when no active quest has that id, nothing changes.  In every step of the
\* engine and the page, completedQuests before the step is a prefix of
\* completedQuests after it.
C16_CompletedQuestsAppendOnly ==
    /\ [](\A questId \in QuestIds :
             CanAllocate(heap) =>
                 \E o \in {completeQuest(state, heap, quests, questId)} :
                     IF questId \in ActiveIds
                     THEN /\ o.state.completedQuests = state.completedQuests
                          /\ o.heap[o.state.completedQuests] = Append(Completed, questId)
                          /\ \A i \in 1..Len(o.heap[o.state.activeQuests]) :
                                o.quests[o.heap[o.state.activeQuests][i]].id # questId
                          /\ o.heap[o.state.activeQuests]
                                = SelectSeq(Active, LAMBDA x : quests[x].id # questId)
                          /\ \A f \in DOMAIN state \ {"activeQuests"} : o.state[f] = state[f]
                     ELSE o.state = state /\ o.heap = heap /\ o.quests = quests)
    /\ [][IsPrefix(Completed, Completed')]_vars

\* Two quests completed, one after the other
C16_Witness ==
    /\ Completed = <<"awakening", "nature-crystal">>
    /\ Active = <<>>

\* C17: in every reachable state, addQuest(quest) appends the quest when no
\* active quest has its id and changes nothing otherwise; and no two quests
\* in activeQuests have the same id.
C17_ActiveQuestsUniqueById ==
    /\ \A quest \in QuestObjects :
          \E o \in {addQuest(state, heap, quests, quest)} :
              /\ o.state = state /\ o.quests = quests
              /\ IF quests[quest].id \in ActiveIds
                 THEN o.heap = heap
                 ELSE o.heap = [heap EXCEPT ![state.activeQuests] = Append(Active, quest)]
    /\ \A i, j \in 1..Len(Active) :
          quests[Active[i]].id = quests[Active[j]].id => i = j

\* A quest of another id added, the first quest completed and a new quest
\* of its id added after that
C17_Witness ==
    /\ Active = <<"quest:nature", "quest:awakening-again">>
    /\ Completed = <<"awakening">>

\* C18: in every reachable state, addItem(item) puts the item at the end of
\* the inventory (also when its id is there already) and changes nothing
\* else; removeItem(itemId) takes out one entry, the first whose id matches,
\* returns it and keeps the other entries in their order; when no entry
\* matches it returns null and changes nothing.
C18_InventoryKeepsOrder ==
    /\ \A item \in InventoryItems :
          \E o \in {addItem(state, heap, quests, item)} :
              /\ o.state = state /\ o.quests = quests
              /\ o.heap = [heap EXCEPT ![state.inventory] = InventoryItemsNow \o <<item>>]
    /\ \A itemId \in InventoryItemIds :
          \E o \in {removeItem(state, heap, quests, itemId)} :
              /\ o.state = state /\ o.quests = quests
              /\ \A r \in DOMAIN heap \ {state.inventory} : o.heap[r] = heap[r]
              /\ IF Matches(itemId) = {}
                 THEN o.ret = Null /\ o.heap = heap
                 ELSE /\ o.ret = InventoryItemsNow[FirstMatch(itemId)]
                      /\ Len(o.heap[state.inventory]) = Len(InventoryItemsNow) - 1
                      /\ \A i \in 1..(Len(InventoryItemsNow) - 1) :
                            o.heap[state.inventory][i] =
                                IF i < FirstMatch(itemId)
                                THEN InventoryItemsNow[i]
                                ELSE InventoryItemsNow[i + 1]

\* Of two entries with the id of the health potion the first was taken out
\* and returned, the second is still there
C18_Witness ==
    /\ ret = HealthPotion
    /\ InventoryItemsNow = <<StarterSword, EmptyBottle>>

ActionTags == {"attack", "defend", "unlock", "pickup", "use", "inventory", "explore"}

\* The rules in their order of priority: the words of each, and its tag
RuleWords == <<{Attack}, {Defend, Block}, {Open, Unlock}, {Pickup, Take, Grab},
               {Use}, {Inventory}>>

RuleTags == <<"attack", "defend", "unlock", "pickup", "use", "inventory">>

\* The rules of which a word occurs in the text typed, in any case of letters
RulesMatching ==
    {k \in 1..Len(RuleWords) :
        \E w \in RuleWords[k] : StrIncludes(ToLowerCase(commandText), w)}

FirstRuleTag ==
    IF RulesMatching = {} THEN "explore"
    ELSE RuleTags[CHOOSE k \in RulesMatching : \A j \in RulesMatching : k <= j]

\* The fields a result with that tag has
FieldsOf(tag) ==
    IF tag \in {"attack", "unlock"} THEN {"action", "target"}
    ELSE IF tag \in {"pickup", "use"} THEN {"action", "itemName"}
    ELSE {"action"}

ParsedTarget == IF "target" \in DOMAIN ret THEN ret.target ELSE ret.itemName

\* The words of the text typed, and those after the first, as typed
InputWords == SelectSeq(Split(commandText), LAMBDA w : w # <<>>)

WordsAfterFirst == IF InputWords = <<>> THEN <<>> ELSE Join(Tail(InputWords))

\* The text typed, lower-cased and trimmed, and what follows its first space
LowerTrimmed == Trim(ToLowerCase(commandText))

SpacesOfLowerTrimmed == {i \in 1..Len(LowerTrimmed) : LowerTrimmed[i] = " "}

AfterFirstSpace ==
    IF SpacesOfLowerTrimmed = {} THEN Unknown
    ELSE SubSeq(LowerTrimmed,
                (CHOOSE i \in SpacesOfLowerTrimmed : \A j \in SpacesOfLowerTrimmed : i <= j) + 1,
                Len(LowerTrimmed))

\* C19 as stated: whatever text parseCommand was given, its result has one of
\* the seven tags, the tag of the first rule a word of which occurs in the
\* text (explore when none does), and for attack, unlock, pickup and use its
\* target is the words of the input after its first word.
C19_TargetIsWordsAfterFirst ==
    "action" \in DOMAIN ret =>
        /\ ret.action \in ActionTags
        /\ ret.action = FirstRuleTag
        /\ DOMAIN ret = FieldsOf(ret.action)
        /\ ret.action \in {"attack", "unlock", "pickup", "use"} =>
              ParsedTarget = WordsAfterFirst

\* C19, amended: parseCommand returns for every text; its result has one of
\* the seven tags, the tag of the first rule a word of which occurs in the
\* text (explore when none does), and for attack, unlock, pickup and use its
\* target is what follows the first space of the lower-cased, trimmed text,
\* and 'unknown' when that text has no space.
C19_TargetIsLowerCasedRestOrUnknown ==
    /\ [][DOMAIN ret' = FieldsOf(ret'.action)]_vars
    /\ []("action" \in DOMAIN ret =>
             /\ ret.action \in ActionTags
             /\ ret.action = FirstRuleTag
             /\ DOMAIN ret = FieldsOf(ret.action)
             /\ ret.action \in {"attack", "unlock", "pickup", "use"} =>
                   ParsedTarget = AfterFirstSpace)

\* parseCommand("take the rusty sword") has returned pickup, "the rusty sword"
C19_Witness ==
    /\ commandText = TakeTheRustySword
    /\ "action" \in DOMAIN ret
    /\ ret.action = "pickup"
    /\ ret.itemName = <<"t", "h", "e", " ", "r", "u", "s", "t", "y", " ",
                        "s", "w", "o", "r", "d">>

\* C20: commands are serialized.  At most one call of the dungeon-master
\* function is outstanding, and isLoading is true exactly while one is; while
\* one is outstanding no step adds another; and the engine's state changes
\* only in the step that answers the one outstanding call, which applies all
\* the effects of that command.
C20_CommandsSerialized ==
    /\ [](Len(inFlight) <= 1)
    /\ [](isLoading <=> Len(inFlight) = 1)
    /\ [][inFlight # <<>> => Len(inFlight') <= Len(inFlight)]_vars
    /\ [][(state' # state \/ heap' # heap \/ quests' # quests) =>
             Len(inFlight) = 1 /\ inFlight' = <<>>]_vars

\* A command is outstanding after an earlier one was answered and applied
C20_Witness ==
    /\ isLoading
    /\ Len(inFlight) = 1
    /\ state.gold = 90
    /\ "Nature" \in Range(heap[state.crystalsRestored])

\* The payloads of the stated shape (itemsFound an array of items)
TypedPayloads == PagePayloads \cup GoldPayloads \cup CrystalPayloads \cup QuestPayloads

\* A field of a payload that is there and is not the zero or empty value
Present(e, field, empty) == field \in DOMAIN e /\ e[field] # empty

CompletesQuest(e) ==
    Present(e, "questUpdate", Null) /\ e.questUpdate.status = "complete"

NothingPresent(e) ==
    /\ ~Present(e, "healthChange", 0) /\ ~Present(e, "goldChange", 0)
    /\ ~Present(e, "experienceGain", 0) /\ ~Present(e, "itemsFound", <<>>)
    /\ ~Present(e, "locationUpdate", "") /\ ~CompletesQuest(e)
    /\ ~Present(e, "crystalRestored", "")

\* C21: in every reachable state and for every payload of the stated shape,
\* applying the payload does to each part of the state what the one mutator
\* of its field does and nothing else: a field that is absent, zero or empty
\* leaves its part as it is (so does a questUpdate whose status is not
\* 'complete'), and a payload with no field present leaves the state, the
\* arrays and the quests as they are.
C21_OneMutatorPerPresentField ==
    \A e \in TypedPayloads :
        \E o \in {ApplyEffects(state, heap, quests, e)} :
            /\ ~Threw(o)
            /\ o.state.gold =
                  IF Present(e, "goldChange", 0) THEN state.gold + e.goldChange
                  ELSE state.gold
            /\ IF Present(e, "experienceGain", 0)
               THEN \E g \in {gainExperience(state, heap, quests, e.experienceGain)} :
                       /\ o.state.experience = g.state.experience
                       /\ o.state.level = g.state.level
                       /\ o.state.maxHealth = g.state.maxHealth
               ELSE /\ o.state.experience = state.experience
                    /\ o.state.level = state.level
                    /\ o.state.maxHealth = state.maxHealth
            /\ o.state.health =
                  IF o.state.level # state.level THEN o.state.maxHealth
                  ELSE IF ~Present(e, "healthChange", 0) THEN state.health
                  ELSE IF e.healthChange < 0 THEN Max(0, state.health + e.healthChange)
                  ELSE Min(state.maxHealth, state.health + e.healthChange)
            /\ o.state.inventory = state.inventory
            /\ o.heap[state.inventory] =
                  IF Present(e, "itemsFound", <<>>)
                  THEN heap[state.inventory] \o e.itemsFound
                  ELSE heap[state.inventory]
            /\ o.state.currentLocation =
                  IF Present(e, "locationUpdate", "") THEN e.locationUpdate
                  ELSE state.currentLocation
            /\ o.state.currentRegion = state.currentRegion
            /\ IF CompletesQuest(e)
               THEN \E c \in {completeQuest(state, heap, quests, e.questUpdate.questId)} :
                       /\ o.quests = c.quests
                       /\ o.state.activeQuests = c.state.activeQuests
                       /\ o.heap[o.state.activeQuests] = c.heap[c.state.activeQuests]
                       /\ o.heap[state.completedQuests] = c.heap[state.completedQuests]
               ELSE /\ o.quests = quests
                    /\ o.state.activeQuests = state.activeQuests
                    /\ o.heap[state.activeQuests] = heap[state.activeQuests]
                    /\ o.heap[state.completedQuests] = heap[state.completedQuests]
            /\ o.state.completedQuests = state.completedQuests
            /\ o.state.crystalsRestored = state.crystalsRestored
            /\ IF Present(e, "crystalRestored", "")
               THEN \E r \in {restoreCrystal(state, heap, quests, e.crystalRestored)} :
                       /\ o.heap[state.crystalsRestored] = r.heap[state.crystalsRestored]
                       /\ o.state.currentAct = r.state.currentAct
                       /\ o.state.storyPhase = r.state.storyPhase
               ELSE /\ o.heap[state.crystalsRestored] = heap[state.crystalsRestored]
                    /\ o.state.currentAct = state.currentAct
                    /\ o.state.storyPhase = state.storyPhase
            /\ NothingPresent(e) =>
                  o.state = state /\ o.heap = heap /\ o.quests = quests

\* A reply whose payload had a goldChange and a crystalRestored and nothing
\* else present has been applied to the initial state
C21_Witness ==
    /\ ~isLoading
    /\ lastMessage = Message("assistant", SomeNarrative)
    /\ state = [INITIAL_STATE EXCEPT !.gold = 90, !.currentAct = 2,
                                     !.storyPhase = "exploration"]
    /\ heap[state.crystalsRestored] = <<"Water">>
    /\ heap[state.inventory] = <<StarterSword, HealthPotion>>
    /\ heap[state.activeQuests] = <<AwakeningQuest>>
    /\ ~quests[AwakeningQuest].completed

\* C22: a step in which handleCommand ends in its error path (the call of the
\* function is answered and the page shows the message of the catch block)
\* leaves what the engine holds as it was when the command was accepted; no
\* step changes it between the accepting and the answer.
C22_ErrorPathLeavesStateUnchanged ==
    [][(Len(inFlight') < Len(inFlight) /\ lastMessage' = ForcesDisturbed) =>
          EngineView' = EngineView]_vars

\* C23: when every call of the function is answered in the end, isLoading
\* being true leads to isLoading being false; the step that answers a call,
\* with a reply or with an error, and the step that handles an inventory
\* command end with isLoading false.
C23_LoadingEventuallyCleared ==
    /\ isLoading ~> ~isLoading
    /\ [][Len(inFlight') < Len(inFlight) => ~isLoading']_vars
    /\ [][lastMessage' = OpeningInventory /\ ret' = [action |-> "inventory"] => ~isLoading']_vars

\* A new command has been accepted after the error path was taken: the
\* engine is ahead of the state the page shows, which only the error path
\* that follows a throw brings about
C23_Witness ==
    /\ isLoading
    /\ inFlight = <<[action |-> LookAround]>>
    /\ lastMessage = Message("user", LookAround)
    /\ state.level = 2
    /\ gameState.level = 1

\* What INITIAL_STATE shows, and what an engine constructed now from
\* INITIAL_STATE (new GameEngine()) would hold
InitialStateView == View(INITIAL_STATE, heap, quests)

OtherEngineView == View(constructor(INITIAL_STATE), heap, quests)

\* C24: whatever mutators are called on the engine, INITIAL_STATE shows what
\* it showed when the module was loaded, and so does the state of another
\* engine built from it.
C24_EngineOwnsItsState ==
    /\ InitialStateView = View(INITIAL_STATE, InitialHeap, InitialQuests)
    /\ OtherEngineView = View(INITIAL_STATE, InitialHeap, InitialQuests)


\* The payloads that carry a negative healthChange and an experienceGain
LevelUpDamagePayloads ==
    {e \in PagePayloads :
        /\ Present(e, "healthChange", 0) /\ e.healthChange < 0
        /\ Present(e, "experienceGain", 0)}

\* C25: in every reachable state, a payload with a negative healthChange and
\* an experienceGain that reaches the experience the level needs leaves the
\* state one level up, maxHealth 20 higher and health equal to the new
\* maxHealth, which is what gainExperience makes of the state takeDamage
\* left, whatever the damage was and also when it took health to 0.
C25_LevelUpAfterDamageRestoresHealth ==
    \A e \in LevelUpDamagePayloads :
        state.experience + e.experienceGain >= state.level * 100 =>
            \E o \in {ApplyEffects(state, heap, quests, e)} :
            \E d \in {takeDamage(state, heap, quests, Abs(e.healthChange))} :
            \E g \in {gainExperience(d.state, d.heap, d.quests, e.experienceGain)} :
                /\ ~Threw(o)
                /\ d.state.health = Max(0, state.health - Abs(e.healthChange))
                /\ o.state.level = state.level + 1
                /\ o.state.maxHealth = state.maxHealth + 20
                /\ o.state.health = o.state.maxHealth
                /\ o.state.health = g.state.health

\* The reply with healthChange -150 and experienceGain 100 has been applied to
\* a hero of level 1 with 100 health: the damage took health to 0 and the
\* level-up set it to 120
C25_Witness ==
    /\ ~isLoading
    /\ lastMessage = Message("assistant", SomeNarrative)
    /\ state.currentLocation = "Sunken Ruins"
    /\ state.level = 2
    /\ state.experience = 0
    /\ state.maxHealth = 120
    /\ state.health = 120
    /\ gameState.health = 120


\* level, maxHealth and currentAct of a state
Progress(s) == <<s.level, s.maxHealth, s.currentAct>>

\* Every mutator but gainExperience, restoreCrystal and setState, called in
\* the state at hand with any of its inputs, leaves level, maxHealth and
\* currentAct as they are
OtherMutatorsKeepProgress ==
    /\ \A amount \in HealthAmounts \cup DamageAmounts :
          /\ Progress(takeDamage(state, heap, quests, amount).state) = Progress(state)
          /\ Progress(heal(state, heap, quests, amount).state) = Progress(state)
    /\ \A item \in Items \cup InventoryItems :
          Progress(addItem(state, heap, quests, item).state) = Progress(state)
    /\ \A itemId \in ItemIds \cup InventoryItemIds :
          /\ Progress(removeItem(state, heap, quests, itemId).state) = Progress(state)
          /\ Progress(useItem(state, heap, quests, itemId).state) = Progress(state)
    /\ \A amount \in SpendAmounts :
          /\ Progress(addGold(state, heap, quests, amount).state) = Progress(state)
          /\ Progress(spendGold(state, heap, quests, amount).state) = Progress(state)
    /\ \A questId \in QuestIds :
          Progress(completeQuest(state, heap, quests, questId).state) = Progress(state)
    /\ \A quest \in QuestObjects :
          Progress(addQuest(state, heap, quests, quest).state) = Progress(state)

\* C26: in every state the mutators reach from INITIAL_STATE, level is at
\* least 1 and maxHealth is 100 + 20 * (level - 1); no call of gainExperience
\* or restoreCrystal lowers level or currentAct, and no other mutator but
\* setState writes level, maxHealth or currentAct at all.
C26_ProgressNeverGoesBack ==
    /\ [](state.level >= 1 /\ state.maxHealth = 100 + 20 * (state.level - 1))
    /\ [][state'.level >= state.level /\ state'.currentAct >= state.currentAct]_vars
    /\ []OtherMutatorsKeepProgress

\* Two level-ups, an experience debt and five crystals later
C26_Witness ==
    /\ state.level = 3
    /\ state.maxHealth = 140
    /\ state.experience = -100
    /\ state.currentAct = 3
    /\ Len(heap[state.crystalsRestored]) = 5
    /\ state.health = 90


\* The payload fields handleCommand reads are all zero, empty or null
AllZeroEmptyOrNull(e) ==
    /\ DOMAIN e = {"healthChange", "goldChange", "experienceGain", "itemsFound",
                   "locationUpdate", "questUpdate", "crystalRestored"}
    /\ e.healthChange = 0 /\ e.goldChange = 0 /\ e.experienceGain = 0
    /\ e.itemsFound = <<>> /\ e.locationUpdate = ""
    /\ e.questUpdate = Null /\ e.crystalRestored = ""

\* The narratives of the replies the function makes of texts that are no JSON
RawNarratives == {content \in ReplyTexts : Unparseable(content)}

\* C27: in every reachable state and for every reply text the function
\* cannot parse, the function answers with status 200, the text itself as
\* narrative and a payload whose fields are all zero, empty or null, and
\* applying that payload leaves the state, the arrays and the quests as they
\* are; the step of the page that shows such a narrative changes nothing the
\* engine holds.
C27_UnparseableReplyChangesNothing ==
    /\ [](\A content \in RawNarratives :
             \E r \in {dungeonMaster(content)} :
                /\ r.status = 200
                /\ r.body.narrative = content
                /\ AllZeroEmptyOrNull(r.body.gameEffects)
                /\ \E o \in {ApplyEffects(state, heap, quests, r.body.gameEffects)} :
                      /\ ~Threw(o)
                      /\ o.state = state /\ o.heap = heap /\ o.quests = quests)
    /\ [][(/\ Len(inFlight') < Len(inFlight)
           /\ \E content \in RawNarratives :
                 lastMessage' = Message("assistant", content))
          => /\ state' = state /\ quests' = quests
             /\ EngineView' = EngineView
             /\ gameState' = getState(state, heap, quests).ret]_vars

\* The page shows a fenced block that breaks off as the narrative, after
\* earlier replies had raised the level and the gold
C27_Witness ==
    /\ ~isLoading
    /\ lastMessage = Message("assistant", BrokenFence)
    /\ state.level = 2
    /\ state.gold = 90
    /\ gameState = getState(state, heap, quests).ret

=============================================================================
